---- MODULE Spec2Model ----
(***************************************************************************)
(* A model of git-bstatus (src/src/main.rs, src/src/utils.rs): the branch  *)
(* scan (scan_branches), the default-branch heuristic (find_default_sha),  *)
(* the printers, and the two helpers of utils.rs.                          *)
(*                                                                         *)
(* Branch and reference names are sequences of one-character strings, so   *)
(* that contains / starts_with / splitn are computed as the code computes  *)
(* them.  The labels built by format! are TLA+ strings.                    *)
(***************************************************************************)
EXTENDS Integers, Sequences, FiniteSets, TLC

VARIABLES
    repo,           \* the repository the run reads (never written)
    args,           \* filter, reverse, output_mode, maybe_patterns of run()
    now,            \* SystemTime::now() in seconds since the epoch
    pc,             \* position of run(): start, scan, print, done, error, panic
    default_calls,  \* number of calls of find_default_sha so far
    head_ref,       \* find_default_sha: the remote HEAD reference it selected
    default_sha,    \* find_default_sha: what it returned
    info,           \* BranchesInfo returned by scan_branches
    stdout,         \* the lines written to standard output, in order
    error,          \* the error run() returned ("none" while there is none)
    timestamp,      \* epoch_to_relative_str: its argument
    rel,            \* epoch_to_relative_str: its result
    time_pc,        \* epoch_to_relative_str: idle, call, done
    cd_arg,         \* count_digits: the argument it was called with
    cd_n,           \* count_digits: mut n
    cd_i,           \* count_digits: let mut i
    cd_ret,         \* count_digits: the value returned
    cd_pc           \* count_digits: idle, match, loop, done

run_vars == <<repo, args, pc, default_calls, head_ref, default_sha, info, stdout, error>>
time_vars == <<timestamp, rel, time_pc>>
digit_vars == <<cd_arg, cd_n, cd_i, cd_ret, cd_pc>>
vars == <<repo, args, now, pc, default_calls, head_ref, default_sha, info, stdout,
          error, timestamp, rel, time_pc, cd_arg, cd_n, cd_i, cd_ret, cd_pc>>

\* Option<T>: None is the empty sequence, Some(x) the sequence of x alone
None == <<>>
Some(x) == <<x>>

(***************************************************************************)
(* utils.rs                                                                *)
(***************************************************************************)
SECONDS_PER_MINUTE == 60
MINUTES_PER_HOUR == 60
HOURS_PER_DAY == 24
DAYS_PER_WEEK == 7
DAYS_PER_MONTH == 30
MONTHS_PER_YEAR == 12

\* format!("{} {}{}", n, s, if n == 1 { "" } else { "s" })
plural(s, n) ==
    ToString(n) \o " " \o s \o (IF n = 1 THEN "" ELSE "s")

\* A plausible slip: weeks counted up to a month of 31 days.
epoch_to_relative_str_long_month(ts, nw) ==
    IF ts >= nw THEN "now"
    ELSE LET secs == nw - ts
             mins == secs \div SECONDS_PER_MINUTE
             hours == mins \div MINUTES_PER_HOUR
             days == hours \div HOURS_PER_DAY
             months == days \div DAYS_PER_MONTH
             years == months \div MONTHS_PER_YEAR
         IN  IF secs < SECONDS_PER_MINUTE THEN plural("sec", secs)
             ELSE IF mins < MINUTES_PER_HOUR THEN plural("min", mins)
             ELSE IF hours < HOURS_PER_DAY THEN plural("hour", hours)
             ELSE IF days < DAYS_PER_WEEK THEN plural("day", days)
             ELSE IF days <= DAYS_PER_MONTH THEN plural("week", days \div DAYS_PER_WEEK)
             ELSE IF months < MONTHS_PER_YEAR THEN plural("month", months)
             ELSE plural("year", years)

\* utils::epoch_to_relative_str, with SystemTime::now() passed as nw.
epoch_to_relative_str(ts, nw) ==
    IF ts >= nw THEN "now"
    ELSE LET secs == nw - ts
             mins == secs \div SECONDS_PER_MINUTE
             hours == mins \div MINUTES_PER_HOUR
             days == hours \div HOURS_PER_DAY
             months == days \div DAYS_PER_MONTH
             years == months \div MONTHS_PER_YEAR
         IN  IF secs < SECONDS_PER_MINUTE THEN plural("sec", secs)
             ELSE IF mins < MINUTES_PER_HOUR THEN plural("min", mins)
             ELSE IF hours < HOURS_PER_DAY THEN plural("hour", hours)
             ELSE IF days < DAYS_PER_WEEK THEN plural("day", days)
             ELSE IF days < DAYS_PER_MONTH THEN plural("week", days \div DAYS_PER_WEEK)
             ELSE IF months < MONTHS_PER_YEAR THEN plural("month", months)
             ELSE plural("year", years)

\* The first arms of the match in count_digits; "loop" is the `_` arm.
\* A plausible slip: the second range one too long.
count_digits_match_wide(n) ==
    IF n <= 9 THEN 1 ELSE IF n <= 100 THEN 2 ELSE 0

\* match n { 0..=9 => 1, 10..=99 => 2, _ => loop }: 0 stands for the `_` arm.
count_digits_match(n) ==
    IF n <= 9 THEN 1 ELSE IF n <= 99 THEN 2 ELSE 0

\* count_digits as one function: the match, and the while loop unrolled.
RECURSIVE count_digits_loop(_, _)
count_digits_loop(n, i) ==
    IF n > 0 THEN count_digits_loop(n \div 10, i + 1) ELSE i

count_digits(n) ==
    IF count_digits_match(n) # 0 THEN count_digits_match(n)
    ELSE count_digits_loop(n, 0)

(***************************************************************************)
(* Strings of main.rs, as sequences of characters                          *)
(***************************************************************************)
StartsWith(s, p) == Len(p) <= Len(s) /\ SubSeq(s, 1, Len(p)) = p

\* str::contains: p occurs in s as a substring
Contains(s, p) ==
    \E k \in 1..(Len(s) - Len(p) + 1) : SubSeq(s, k, k + Len(p) - 1) = p

\* position of the first occurrence of character c in s, 0 when there is none
RECURSIVE IndexOf(_, _, _)
IndexOf(s, c, k) ==
    IF k > Len(s) THEN 0 ELSE IF s[k] = c THEN k ELSE IndexOf(s, c, k + 1)

\* s.splitn(2, '/').collect()
splitn2(s) ==
    LET k == IndexOf(s, "/", 1)
    IN  IF k = 0 THEN <<s>> ELSE <<SubSeq(s, 1, k - 1), SubSeq(s, k + 1, Len(s))>>

master == <<"m", "a", "s", "t", "e", "r">>
main == <<"m", "a", "i", "n">>
feat == <<"f", "e", "a", "t">>
origin == <<"o", "r", "i", "g", "i", "n">>
RefsRemotes == <<"r", "e", "f", "s", "/", "r", "e", "m", "o", "t", "e", "s", "/">>
RefsHeads == <<"r", "e", "f", "s", "/", "h", "e", "a", "d", "s", "/">>
SlashHEAD == <<"/", "H", "E", "A", "D">>
LOCAL_BRANCH_REF_PREFIX == RefsHeads
RECENT_N == 5

\* "refs/remotes/<remote>/HEAD" and "refs/remotes/<remote>/<branch>"
RemoteHeadName(remote) == RefsRemotes \o remote \o SlashHEAD
RemoteBranchName(remote, branch) == RefsRemotes \o remote \o <<"/">> \o branch

(***************************************************************************)
(* The repository (git2), read only.  A repository is a record             *)
(*   found        Repository::discover succeeds                            *)
(*   branches     the local branches in the order repo.branches() yields   *)
(*                them: [name, oid, upstream], upstream None or Some of  *)
(*                [name, oid]                                              *)
(*   remote_heads the references references_glob("refs/remotes/*/HEAD")    *)
(*                yields, in order: [name, target], target None when the   *)
(*                symbolic reference dangles, else Some of the name of the *)
(*                reference it points to                                   *)
(*   head         HEAD: [kind |-> "branch", name], [kind |-> "detached",   *)
(*                oid] or [kind |-> "unborn"]                              *)
(*   time         commit time of each commit                               *)
(*   bad          commits whose object cannot be read                      *)
(*   graph_ok     graph_ahead_behind succeeds                              *)
(*   walk_ok      revwalk setup succeeds                                   *)
(* History is one line: commit k's parent is commit k - 1, commit 0 is the *)
(* root.                                                                   *)
(***************************************************************************)
Ok(v) == [status |-> "ok", value |-> v]
Err(e) == [status |-> "err", error |-> e]
Panic == [status |-> "panic"]

\* Reference::peel_to_commit()?.id()
peel_to_commit(r, oid) ==
    IF oid \in r.bad THEN Err("peel_to_commit") ELSE Ok(oid)

\* repo.find_branch(name, BranchType::Local): the branch, or None
find_branch(r, name) ==
    IF \E k \in 1..Len(r.branches) : r.branches[k].name = name
    THEN Some(r.branches[CHOOSE k \in 1..Len(r.branches) : r.branches[k].name = name])
    ELSE None

\* repo.graph_ahead_behind(a, b): the ahead component
graph_ahead_behind(r, a, b) ==
    IF ~r.graph_ok THEN Err("graph_ahead_behind")
    ELSE Ok(IF a > b THEN a - b ELSE 0)

\* Reference::is_remote: the name is under refs/remotes/
is_remote(name) == StartsWith(name, RefsRemotes)

(***************************************************************************)
(* find_default_sha                                                        *)
(***************************************************************************)
\* The for loop of lines 220-235: head_ref after visiting refs[k..], cur
\* being head_ref before.  It stops at the first name that starts with
\* "refs/remotes/origin".
RECURSIVE select_head_ref(_, _, _)
select_head_ref(refs, k, cur) ==
    IF k > Len(refs) THEN cur
    ELSE IF ~is_remote(refs[k].name) THEN select_head_ref(refs, k + 1, cur)
    ELSE IF StartsWith(refs[k].name, RefsRemotes \o origin) THEN Some(refs[k])
    ELSE select_head_ref(refs, k + 1, Some(refs[k]))

\* A fallback that tries "main" before "master".
guess_default_main_first(r) ==
    IF find_branch(r, main) # None
    THEN peel_to_commit(r, find_branch(r, main)[1].oid)
    ELSE IF find_branch(r, master) # None
    THEN peel_to_commit(r, find_branch(r, master)[1].oid)
    ELSE Err("Couldn't find default branch")

\* Lines 253-264: guess "master", then "main", else the NotFound error.
guess_default(r) ==
    IF find_branch(r, master) # None
    THEN peel_to_commit(r, find_branch(r, master)[1].oid)
    ELSE IF find_branch(r, main) # None
    THEN peel_to_commit(r, find_branch(r, main)[1].oid)
    ELSE Err("Couldn't find default branch")

\* Lines 238-251 for the selected reference hr, then the fallback.
resolve_head_ref(r, hr) ==
    IF hr.target = None THEN Err("resolve")
    ELSE LET name == hr.target[1]
         IN  IF Len(name) < Len(RefsRemotes) THEN Panic
             ELSE LET v == splitn2(SubSeq(name, Len(RefsRemotes) + 1, Len(name)))
                  IN  IF Len(v) # 2 THEN Panic
                      ELSE IF find_branch(r, v[2]) # None
                      THEN peel_to_commit(r, find_branch(r, v[2])[1].oid)
                      ELSE guess_default(r)

\* find_default_sha: [head_ref, result]
find_default_sha(r) ==
    LET hr == select_head_ref(r.remote_heads, 1, None)
    IN  [head_ref |-> hr,
         result |-> IF hr # None THEN resolve_head_ref(r, hr[1])
                    ELSE guess_default(r)]

(***************************************************************************)
(* scan_branches                                                           *)
(***************************************************************************)
\* acc is the state of the loop of lines 140-193:
\* [status, error, branches, n_merged, n_unmerged]
fail(acc, e) == [acc EXCEPT !.status = "err", !.error = e]

\* Lines 146-150: the branch is skipped by the patterns
skipped_by_patterns(maybe_patterns, name) ==
    /\ maybe_patterns # None
    /\ \A k \in 1..Len(maybe_patterns[1]) : ~Contains(name, maybe_patterns[1][k])

\* A slip that counts every branch as merged.
count_branch_all_merged(acc, merged) ==
    [acc EXCEPT !.n_merged = @ + 1]

\* Lines 167-172
count_branch(acc, merged) ==
    IF merged THEN [acc EXCEPT !.n_merged = @ + 1]
    ELSE [acc EXCEPT !.n_unmerged = @ + 1]

\* A slip that drops the merged branches under Merged.
dropped_by_filter_swapped(filter, merged) ==
    \/ (filter = "Merged" /\ merged)
    \/ (filter = "Unmerged" /\ merged)

\* Lines 174-178: the `continue` on the merge status
dropped_by_filter(filter, merged) ==
    \/ (filter = "Merged" /\ ~merged)
    \/ (filter = "Unmerged" /\ merged)

\* One iteration of the loop (lines 141-192) for branch b; dsha is default_sha.
\* The commit summary is a function of oid and is not carried separately.
scan_branch(acc, b, r, a, dsha, nw) ==
    IF acc.status # "ok" THEN acc
    ELSE IF skipped_by_patterns(a.maybe_patterns, b.name) THEN acc
    ELSE LET tip == peel_to_commit(r, b.oid)
             up == IF b.upstream # None
                   THEN peel_to_commit(r, b.upstream[1].oid)
                   ELSE Ok(dsha)
         IN  IF tip.status # "ok" THEN fail(acc, tip.error)
             ELSE IF up.status # "ok" THEN fail(acc, up.error)
             ELSE LET g == graph_ahead_behind(r, tip.value, up.value)
                  IN  IF g.status # "ok" THEN fail(acc, g.error)
                      ELSE LET merged == (g.value = 0)
                               counted == count_branch(acc, merged)
                           IN  IF dropped_by_filter(a.filter, merged) THEN counted
                               ELSE IF r.time[b.oid] < 0
                               THEN [counted EXCEPT !.status = "panic"]
                               ELSE [counted EXCEPT !.branches = Append(@,
                                       [name |-> b.name,
                                        active |-> (r.head.kind = "branch"
                                                    /\ r.head.name = b.name),
                                        timestamp |-> r.time[b.oid],
                                        timestamp_rel |->
                                            epoch_to_relative_str(r.time[b.oid], nw),
                                        ahead |-> g.value,
                                        oid |-> tip.value,
                                        upstream |-> IF b.upstream # None
                                                     THEN Some(b.upstream[1].name)
                                                     ELSE None])]

\* The loop of lines 140-193 from branch k on
RECURSIVE scan_loop(_, _, _, _, _, _)
scan_loop(acc, k, r, a, dsha, nw) ==
    IF k > Len(r.branches) THEN acc
    ELSE scan_loop(scan_branch(acc, r.branches[k], r, a, dsha, nw), k + 1, r, a, dsha, nw)

RemoveAt(s, k) == SubSeq(s, 1, k - 1) \o SubSeq(s, k + 1, Len(s))

\* Line 196: the key is u64::MAX - timestamp, which orders as -timestamp does
\* (timestamp <= u64::MAX, so the subtraction does not wrap).
sort_key(b) == 0 - b.timestamp

\* branches.sort_unstable_by_key(..): every order of s that is sorted by key;
\* an unstable sort may leave equal keys in any order.
RECURSIVE sort_unstable_by_key(_)
sort_unstable_by_key(s) ==
    IF s = <<>> THEN {<<>>}
    ELSE LET least == {k \in 1..Len(s) : \A j \in 1..Len(s) : sort_key(s[k]) <= sort_key(s[j])}
         IN  UNION {{<<s[k]>> \o t : t \in sort_unstable_by_key(RemoveAt(s, k))} : k \in least}

truncate(s, n) == IF Len(s) > n THEN SubSeq(s, 1, n) ELSE s
reverse(s) == [k \in 1..Len(s) |-> s[Len(s) + 1 - k]]

\* A slip that reverses before it truncates.
rank_reverse_first(sorted, a) ==
    LET reversed == IF a.reverse THEN reverse(sorted) ELSE sorted
    IN  IF a.filter = "Recent" THEN truncate(reversed, RECENT_N) ELSE reversed

\* Lines 198-204 on the sorted vector
rank(sorted, a) ==
    LET truncated == IF a.filter = "Recent" THEN truncate(sorted, RECENT_N) ELSE sorted
    IN  IF a.reverse THEN reverse(truncated) ELSE truncated

NoInfo == [branches |-> <<>>, n_merged |-> 0, n_unmerged |-> 0]

\* scan_branches (lines 129-211), called by run() at line 114
ScanBranches ==
    /\ pc = "scan"
    /\ LET d == find_default_sha(repo)
       IN  /\ default_calls' = default_calls + 1
           /\ head_ref' = d.head_ref
           /\ default_sha' = d.result
           /\ IF d.result.status = "panic"
              THEN pc' = "panic" /\ UNCHANGED <<info, error>>
              ELSE IF d.result.status = "err"
              THEN pc' = "error" /\ error' = d.result.error /\ UNCHANGED info
              ELSE LET acc == scan_loop([status |-> "ok", error |-> "none",
                                         branches |-> <<>>, n_merged |-> 0,
                                         n_unmerged |-> 0],
                                        1, repo, args, d.result.value, now)
                   IN  IF acc.status = "panic"
                       THEN pc' = "panic" /\ UNCHANGED <<info, error>>
                       ELSE IF acc.status = "err"
                       THEN pc' = "error" /\ error' = acc.error /\ UNCHANGED info
                       ELSE /\ \E sorted \in sort_unstable_by_key(acc.branches) :
                                 info' = [branches |-> rank(sorted, args),
                                          n_merged |-> acc.n_merged,
                                          n_unmerged |-> acc.n_unmerged]
                            /\ pc' = "print"
                            /\ UNCHANGED error
    /\ UNCHANGED <<repo, args, now, stdout, time_vars, digit_vars>>

(***************************************************************************)
(* The printers.  A printer returns [out, status, error]: the lines it     *)
(* wrote to standard output, and how it ended.                             *)
(***************************************************************************)
MaxOf(S) == CHOOSE x \in S : \A y \in S : y <= x

\* Lines 387-395: the walk from commit oid, entry i, appended to out
RECURSIVE walk_commits(_, _, _, _, _)
walk_commits(r, oid, i, ahead, out) ==
    IF oid < 0 THEN [out |-> out, status |-> "ok", error |-> "none"]
    ELSE IF oid \in r.bad THEN [out |-> out, status |-> "err", error |-> "find_commit"]
    ELSE LET line == [kind |-> "commit", oid |-> oid]
         IN  IF i >= ahead
             THEN [out |-> Append(out, line), status |-> "ok", error |-> "none"]
             ELSE walk_commits(r, oid - 1, i + 1, ahead, Append(out, line))

\* Lines 345-380: the row of one branch
branch_row(b, branches, list_commits, tab) ==
    [kind |-> "row",
     star |-> b.active,
     star_width |-> IF tab THEN 4 ELSE 1,
     branch |-> b.name,
     branch_width |-> MaxOf({Len(x.name) : x \in branches}),
     ago |-> b.timestamp_rel,
     ago_width |-> MaxOf({Len(x.timestamp_rel) : x \in branches}),
     ahead |-> b.ahead,
     ahead_width |-> count_digits(MaxOf({x.ahead : x \in branches})) + 1,
     upstream |-> b.upstream,
     summary |-> IF list_commits THEN None ELSE Some(b.oid)]

\* The loop of lines 344-397 from branch k on
RECURSIVE print_branches_loop(_, _, _, _, _, _)
print_branches_loop(r, branches, list_commits, tab, k, out) ==
    IF k > Len(branches) THEN [out |-> out, status |-> "ok", error |-> "none"]
    ELSE LET b == branches[k]
             row == branch_row(b, {branches[j] : j \in 1..Len(branches)}, list_commits, tab)
         IN  IF ~list_commits
             THEN print_branches_loop(r, branches, list_commits, tab, k + 1, Append(out, row))
             ELSE IF ~r.walk_ok
             THEN [out |-> Append(out, row), status |-> "err", error |-> "revwalk"]
             ELSE LET w == walk_commits(r, b.oid, 0, b.ahead, Append(out, row))
                  IN  IF w.status # "ok" THEN w
                      ELSE print_branches_loop(r, branches, list_commits, tab, k + 1, w.out)

\* print_branches (lines 317-400)
print_branches(r, branches, list_commits, tab) ==
    IF branches = <<>> THEN [out |-> <<>>, status |-> "ok", error |-> "none"]
    ELSE print_branches_loop(r, branches, list_commits, tab, 1, <<>>)

\* print_listing (lines 307-315)
print_listing(r, branches, commits) == print_branches(r, branches, commits, FALSE)

\* print_human (lines 267-305)
print_human(r, inf) ==
    IF r.head.kind = "unborn" THEN [out |-> <<>>, status |-> "err", error |-> "head"]
    ELSE IF r.head.kind = "detached" /\ peel_to_commit(r, r.head.oid).status # "ok"
    THEN [out |-> <<>>, status |-> "err", error |-> "peel_to_commit"]
    ELSE IF r.head.kind = "branch" /\ ~StartsWith(r.head.name, LOCAL_BRANCH_REF_PREFIX)
    THEN [out |-> <<>>, status |-> "panic", error |-> "none"]
    ELSE LET first == IF r.head.kind = "branch"
                      THEN [kind |-> "on_branch",
                            name |-> SubSeq(r.head.name, Len(LOCAL_BRANCH_REF_PREFIX) + 1,
                                            Len(r.head.name))]
                      ELSE [kind |-> "head_detached", oid |-> r.head.oid]
             header == [kind |-> "recently_active"]
             table == IF Len(inf.branches) < RECENT_N
                      THEN print_branches(r, inf.branches, FALSE, TRUE)
                      ELSE print_branches(r, SubSeq(inf.branches, 1, RECENT_N), FALSE, TRUE)
             summary == [kind |-> "there_are",
                         total |-> inf.n_merged + inf.n_unmerged,
                         merged |-> inf.n_merged,
                         unmerged |-> inf.n_unmerged]
         IN  IF table.status # "ok"
             THEN [table EXCEPT !.out = <<first, header>> \o @]
             ELSE [out |-> <<first, header>> \o table.out
                            \o (IF inf.n_unmerged > 0 \/ inf.n_merged > 1
                                THEN <<summary>> ELSE <<>>),
                   status |-> "ok", error |-> "none"]

\* Line 118
print_names(branches) ==
    [out |-> [k \in 1..Len(branches) |-> [kind |-> "name", branch |-> branches[k].name]],
     status |-> "ok", error |-> "none"]

(***************************************************************************)
(* run() and main()                                                        *)
(***************************************************************************)
\* Lines 109-112
Discover ==
    /\ pc = "start"
    /\ IF repo.found
       THEN pc' = "scan" /\ UNCHANGED error
       ELSE pc' = "error" /\ error' = "discover"
    /\ UNCHANGED <<repo, args, now, default_calls, head_ref, default_sha, info, stdout,
                   time_vars, digit_vars>>

\* Lines 116-124: the match on output_mode
PrintOutput ==
    /\ pc = "print"
    /\ LET res == IF args.output_mode = "Human" THEN print_human(repo, info)
                  ELSE IF args.output_mode = "NameOnly" THEN print_names(info.branches)
                  ELSE print_listing(repo, info.branches,
                                     args.output_mode = "ListingCommits")
       IN  /\ stdout' = stdout \o res.out
           /\ IF res.status = "ok" THEN pc' = "done" /\ UNCHANGED error
              ELSE IF res.status = "panic" THEN pc' = "panic" /\ UNCHANGED error
              ELSE pc' = "error" /\ error' = res.error
    /\ UNCHANGED <<repo, args, now, default_calls, head_ref, default_sha, info,
                   time_vars, digit_vars>>

\* Lines 80-88 of main(): the output modes its flags can select for a filter
\* and a pattern list
output_modes(filter, maybe_patterns) ==
    {"ListingCommits", "NameOnly",
     IF filter # "Recent" \/ maybe_patterns # None THEN "Listing" ELSE "Human"}

BranchFilter == {"Recent", "All", "Merged", "Unmerged"}

(***************************************************************************)
(* The steps of the two helpers of utils.rs, run on their own              *)
(***************************************************************************)
\* One call of epoch_to_relative_str(timestamp) at time now
EpochToRelativeStr ==
    /\ time_pc = "call"
    /\ rel' = epoch_to_relative_str(timestamp, now)
    /\ time_pc' = "done"
    /\ UNCHANGED <<run_vars, now, timestamp, digit_vars>>

\* count_digits, line 62: the match on n
CountDigitsMatch ==
    /\ cd_pc = "match"
    /\ IF count_digits_match(cd_n) # 0
       THEN cd_ret' = count_digits_match(cd_n) /\ cd_pc' = "done" /\ UNCHANGED cd_i
       ELSE cd_i' = 0 /\ cd_pc' = "loop" /\ UNCHANGED cd_ret
    /\ UNCHANGED <<run_vars, now, time_vars, cd_arg, cd_n>>

\* count_digits, lines 67-71: one test of the while condition
CountDigitsLoop ==
    /\ cd_pc = "loop"
    /\ IF cd_n > 0
       THEN cd_n' = cd_n \div 10 /\ cd_i' = cd_i + 1 /\ UNCHANGED <<cd_ret, cd_pc>>
       ELSE cd_ret' = cd_i /\ cd_pc' = "done" /\ UNCHANGED <<cd_n, cd_i>>
    /\ UNCHANGED <<run_vars, now, time_vars, cd_arg>>

(***************************************************************************)
(* Bounds and the inputs drawn within them                                 *)
(***************************************************************************)
MaxBranches == 3        \* local branches of a repository of Spec
MaxOid == 1             \* commits 0..MaxOid of the history line
MaxRecentBranches == 6  \* local branches of a repository of SpecRecent
MaxRemotes == 2         \* remotes with a HEAD reference, SpecDefault
MaxCount == 12          \* multiples of each time unit, SpecTime
MaxDigitsArg == 1001    \* arguments 0..MaxDigitsArg of count_digits

Oids == 0..MaxOid

Max(a, b) == IF a >= b THEN a ELSE b

\* The k-th local branch name
BranchName(k) ==
    IF k = 1 THEN master ELSE IF k = 2 THEN feat ELSE IF k = 3 THEN main
    ELSE <<"b", ToString(k)>>

\* The k-th remote name: "origin", "origin2", "upstream", ...
RemoteName(k) ==
    IF k = 1 THEN origin ELSE IF k = 2 THEN origin \o <<"2">>
    ELSE IF k = 3 THEN <<"u", "p", "s", "t", "r", "e", "a", "m">>
    ELSE <<"r", ToString(k)>>

\* Commit times: one minute apart along the history line
CommitTimes(oids) == [o \in oids |-> 1000 + 60 * o]

\* Branch k at commit o: without upstream, or tracking origin/<name>, which
\* is at the parent of o (at o itself for the root)
BranchChoices(k, oids) ==
    {[name |-> BranchName(k), oid |-> o, upstream |-> None] : o \in oids}
    \cup {[name |-> BranchName(k), oid |-> o,
           upstream |-> Some([name |-> origin \o <<"/">> \o BranchName(k),
                              oid |-> Max(o - 1, 0)])] : o \in oids}

\* The sequences of branches among the first k names, in name order
RECURSIVE BranchSeqs(_, _)
BranchSeqs(k, oids) ==
    IF k = 0 THEN {<<>>}
    ELSE LET rest == BranchSeqs(k - 1, oids)
         IN  rest \cup {Append(s, b) : s \in rest, b \in BranchChoices(k, oids)}

\* HEAD of a repository with branches bs
Heads(bs) ==
    {[kind |-> "unborn"]}
    \cup (IF bs = <<>> THEN {}
          ELSE {[kind |-> "branch", name |-> RefsHeads \o bs[1].name],
                [kind |-> "detached", oid |-> bs[1].oid]})

Healthy == [found |-> TRUE, bad |-> {}, graph_ok |-> TRUE, walk_ok |-> TRUE]

\* One thing of the repository is broken
Faults(oids) ==
    {[Healthy EXCEPT !.found = FALSE], [Healthy EXCEPT !.graph_ok = FALSE],
     [Healthy EXCEPT !.walk_ok = FALSE]}
    \cup {[Healthy EXCEPT !.bad = {o}] : o \in oids}

MakeRepo(bs, heads, hd, oids, f) ==
    [found |-> f.found, branches |-> bs, remote_heads |-> heads, head |-> hd,
     time |-> CommitTimes(oids), bad |-> f.bad, graph_ok |-> f.graph_ok,
     walk_ok |-> f.walk_ok]

PatternChoices ==
    {None, Some(<< <<"m", "a">> >>), Some(<< <<"f">>, <<"i", "n">> >>)}

\* The arguments main() can pass to run()
ArgChoices(filters, patterns, reverses) ==
    {[filter |-> f, maybe_patterns |-> p, reverse |-> rv, output_mode |-> m] :
        f \in filters, p \in patterns, rv \in reverses,
        m \in {"ListingCommits", "NameOnly", "Listing", "Human"}}
    \cap {a \in [filter : filters, maybe_patterns : patterns, reverse : reverses,
                 output_mode : {"ListingCommits", "NameOnly", "Listing", "Human"}] :
            a.output_mode \in output_modes(a.filter, a.maybe_patterns)}

IdleTime == timestamp = 0 /\ rel = "" /\ time_pc = "idle"
IdleDigits == cd_arg = 0 /\ cd_n = 0 /\ cd_i = 0 /\ cd_ret = 0 /\ cd_pc = "idle"
IdleRun ==
    /\ repo = MakeRepo(<<>>, <<>>, [kind |-> "unborn"], {}, Healthy)
    /\ args = [filter |-> "Recent", maybe_patterns |-> None, reverse |-> FALSE,
               output_mode |-> "Human"]
    /\ pc = "idle"
    /\ default_calls = 0 /\ head_ref = None /\ default_sha = [status |-> "none"]
    /\ info = NoInfo /\ stdout = <<>> /\ error = "none"

\* The start of run() on repository r with arguments a
StartRun(r, a) ==
    /\ repo = r
    /\ args = a
    /\ now = 5000
    /\ pc = "start"
    /\ default_calls = 0 /\ head_ref = None /\ default_sha = [status |-> "none"]
    /\ info = NoInfo /\ stdout = <<>> /\ error = "none"
    /\ IdleTime /\ IdleDigits

\* HEAD on the first branch, unborn when there is none
HeadOnFirst(bs) ==
    IF bs = <<>> THEN [kind |-> "unborn"]
    ELSE [kind |-> "branch", name |-> RefsHeads \o bs[1].name]

\* Repositories of up to MaxBranches branches with no remote HEAD.  On a
\* healthy repository: every filter, pattern list and reverse flag with names
\* only, and every output mode main() selects without patterns and reversal;
\* the other states of HEAD under the Human mode; and every output mode on a
\* broken repository.
Init ==
    \E bs \in BranchSeqs(MaxBranches, Oids) :
        \/ \E a \in ArgChoices(BranchFilter, PatternChoices, BOOLEAN) :
               /\ a.output_mode = "NameOnly"
               /\ StartRun(MakeRepo(bs, <<>>, HeadOnFirst(bs), Oids, Healthy), a)
        \/ \E a \in ArgChoices({"Recent", "All"}, {None}, {FALSE}) :
               /\ a.output_mode # "NameOnly"
               /\ StartRun(MakeRepo(bs, <<>>, HeadOnFirst(bs), Oids, Healthy), a)
        \/ \E hd \in Heads(bs) \ {HeadOnFirst(bs)},
              a \in ArgChoices({"Recent"}, {None}, BOOLEAN) :
               /\ a.output_mode = "Human"
               /\ StartRun(MakeRepo(bs, <<>>, hd, Oids, Healthy), a)
        \/ \E f \in Faults(Oids), a \in ArgChoices({"Recent"}, {None}, {FALSE}) :
               StartRun(MakeRepo(bs, <<>>, [kind |-> "detached", oid |-> 0], Oids, f), a)

\* Repositories of RECENT_N - 1 to MaxRecentBranches branches without
\* upstream, master at the root commit, listed with the Recent filter
RecentBranchSeqs(n, oids) ==
    {[k \in 1..n |-> [name |-> BranchName(k), oid |-> f[k], upstream |-> None]] :
        f \in {g \in [1..n -> oids] : g[1] = 0}}

InitRecent ==
    \E n \in (RECENT_N - 1)..MaxRecentBranches :
        \E bs \in RecentBranchSeqs(n, Oids), rv \in BOOLEAN :
            StartRun(MakeRepo(bs, <<>>, HeadOnFirst(bs), Oids, Healthy),
                     [filter |-> "Recent", maybe_patterns |-> None, reverse |-> rv,
                      output_mode |-> "NameOnly"])

\* What a remote HEAD of remote rm may point to: nothing (it dangles), the
\* remote-tracking branch of master or of feat, or a reference outside
\* refs/remotes/
TargetChoices(rm) ==
    {None, Some(RemoteBranchName(rm, master)), Some(RemoteBranchName(rm, feat)),
     Some(RefsHeads \o master)}

\* The sequences of remote HEAD references over the first k remotes, in every
\* order of enumeration
RECURSIVE RemoteHeadSeqs(_)
RemoteHeadSeqs(used) ==
    {<<>>} \cup
    UNION {{<<[name |-> RemoteHeadName(RemoteName(k)), target |-> t]>> \o rest :
               t \in TargetChoices(RemoteName(k)),
               rest \in RemoteHeadSeqs(used \cup {k})} :
           k \in (1..MaxRemotes) \ used}

\* The local branches of SpecDefault: any of master, feat and main, each at
\* its own commit
DefaultBranchSeqs ==
    LET all == <<[name |-> master, oid |-> 0, upstream |-> None],
                 [name |-> feat, oid |-> 1, upstream |-> None],
                 [name |-> main, oid |-> 2, upstream |-> None]>>
        RECURSIVE pick(_)
        pick(k) == IF k = 0 THEN {<<>>}
                   ELSE pick(k - 1) \cup {Append(s, all[k]) : s \in pick(k - 1)}
    IN  pick(3)

InitDefault ==
    \E bs \in DefaultBranchSeqs, heads \in RemoteHeadSeqs({}),
       f \in {Healthy} \cup {[Healthy EXCEPT !.bad = {o}] : o \in 0..2} :
        StartRun(MakeRepo(bs, heads, HeadOnFirst(bs), 0..2, f),
                 [filter |-> "All", maybe_patterns |-> None, reverse |-> FALSE,
                  output_mode |-> "NameOnly"])

\* The ages tried: around every multiple, up to MaxCount, of every unit
UnitSeconds == {1, 60, 3600, 86400, 604800, 2592000, 31104000}
Agos == {a \in {c * u + d : c \in 0..MaxCount, u \in UnitSeconds, d \in {0 - 1, 0, 1}} :
            a >= 0} \cup {90}

InitTime ==
    /\ now = 1700000000
    /\ \E ago \in Agos \cup {0 - 1, 0 - 60} : timestamp = now - ago
    /\ rel = ""
    /\ time_pc = "call"
    /\ IdleRun /\ IdleDigits

\* The arguments tried: 0..MaxDigitsArg and around every power of ten
DigitsArgs ==
    (0..MaxDigitsArg) \cup {10 ^ e + d : e \in 1..9, d \in {0 - 1, 0, 1}}

InitDigits ==
    /\ cd_arg \in DigitsArgs
    /\ cd_n = cd_arg
    /\ cd_i = 0 /\ cd_ret = 0
    /\ cd_pc = "match"
    /\ now = 0
    /\ IdleRun /\ IdleTime

Next == Discover \/ ScanBranches \/ PrintOutput

Spec == Init /\ [][Next]_vars
SpecRecent == InitRecent /\ [][Next]_vars
SpecDefault == InitDefault /\ [][Next]_vars

NextTime == EpochToRelativeStr
SpecTime == InitTime /\ [][NextTime]_vars

\* count_digits runs on one thread that nothing suspends: it keeps stepping
NextDigits == CountDigitsMatch \/ CountDigitsLoop
SpecDigits == InitDigits /\ [][NextDigits]_vars /\ WF_vars(NextDigits)

(***************************************************************************)
(* What the claims speak of, stated without the operators of the model     *)
(***************************************************************************)
\* scan_branches has returned Ok: run() is at or past its match statement
ScanReturned == pc \in {"print", "done"}

\* The name filter: no patterns, or some pattern is a substring of the name
Matches(b) ==
    \/ args.maybe_patterns = None
    \/ \E k \in 1..Len(args.maybe_patterns[1]) :
          \E from \in 1..(Len(b.name) + 1), to \in 0..Len(b.name) :
              SubSeq(b.name, from, to) = args.maybe_patterns[1][k]

\* The local branches that pass the name filter, by position of enumeration
Matching == {k \in 1..Len(repo.branches) : Matches(repo.branches[k])}

\* The commits reachable from commit o on the history line
Reach(o) == 0..o

\* The baseline of a branch, once the default is known
BaselineOf(b) ==
    IF b.upstream = None THEN default_sha.value ELSE b.upstream[1].oid

\* Ahead count: commits reachable from the tip and not from the baseline
AheadOf(b) == Cardinality(Reach(b.oid) \ Reach(BaselineOf(b)))

MergedMatching == {k \in Matching : AheadOf(repo.branches[k]) = 0}
UnmergedMatching == {k \in Matching : AheadOf(repo.branches[k]) # 0}

Returned == {info.branches[k].name : k \in 1..Len(info.branches)}
NamesOf(S) == {repo.branches[k].name : k \in S}
EnumIndex(name) == CHOOSE k \in 1..Len(repo.branches) : repo.branches[k].name = name
Min(a, b) == IF a <= b THEN a ELSE b

C8_MergeFilter ==
    ScanReturned =>
        /\ Len(info.branches) = Cardinality(Returned)
        /\ args.filter = "Merged" => Returned = NamesOf(MergedMatching)
        /\ args.filter = "Unmerged" => Returned = NamesOf(UnmergedMatching)
        /\ args.filter = "All" => Returned = NamesOf(Matching)
        /\ args.filter = "Recent" =>
              /\ Returned \subseteq NamesOf(Matching)
              /\ Len(info.branches) = Min(RECENT_N, Cardinality(Matching))

\* A scan under Merged that lists a merged branch, drops an unmerged one and
\* skips a branch by the patterns
C8_Witness ==
    /\ ScanReturned
    /\ args.filter = "Merged" /\ args.maybe_patterns # None
    /\ Cardinality(Matching) < Len(repo.branches)
    /\ MergedMatching # {} /\ UnmergedMatching # {}
    /\ Len(info.branches) = Cardinality(MergedMatching)

\* C3: the sort is stable: without reversal, two returned branches of equal
\* timestamp are in the order of enumeration.
C3_StableSort ==
    (ScanReturned /\ ~args.reverse) =>
        \A i, j \in 1..Len(info.branches) :
            (i < j /\ info.branches[i].timestamp = info.branches[j].timestamp)
                => EnumIndex(info.branches[i].name) < EnumIndex(info.branches[j].name)

\* C6: find_default_sha is called at most once, only if some matching branch
\* has no upstream; when every matching branch has an upstream the run does
\* not depend on a default branch being found.
C6_LazyDefault ==
    /\ default_calls <= 1
    /\ default_calls > 0 => \E k \in Matching : repo.branches[k].upstream = None
    /\ (\A k \in Matching : repo.branches[k].upstream # None)
          => error # "Couldn't find default branch"

\* C7: when the run ends with an error, no branch row, branch name or commit
\* line has been written to standard output.
C7_NoPartialOutput ==
    pc = "error" =>
        \A k \in 1..Len(stdout) : stdout[k].kind \notin {"row", "commit", "name"}

\* The timestamp of the local branch called name
TimeOfName(name) == repo.time[repo.branches[EnumIndex(name)].oid]

\* C2: under Recent the returned sequence holds min(RECENT_N, n) distinct
\* matching branches, none of them older than a matching branch left out,
\* each with the timestamp of its tip, in ascending order of timestamp when
\* reverse is set and in descending order when it is not.
C2_TruncateThenReverse ==
    (ScanReturned /\ args.filter = "Recent") =>
        /\ Len(info.branches) = Min(RECENT_N, Cardinality(Matching))
        /\ Cardinality(Returned) = Len(info.branches)
        /\ Returned \subseteq NamesOf(Matching)
        /\ \A k \in 1..Len(info.branches) :
              info.branches[k].timestamp = TimeOfName(info.branches[k].name)
        /\ \A kept \in Returned, left \in NamesOf(Matching) \ Returned :
              TimeOfName(kept) >= TimeOfName(left)
        /\ \A i, j \in 1..Len(info.branches) :
              i < j => IF args.reverse
                       THEN info.branches[i].timestamp <= info.branches[j].timestamp
                       ELSE info.branches[i].timestamp >= info.branches[j].timestamp

\* More than RECENT_N branches with reverse set: the window is full, it runs
\* from an older to a newer branch, and the branch left out is no newer than
\* the oldest branch kept
C2_Witness ==
    /\ ScanReturned
    /\ args.filter = "Recent" /\ args.reverse
    /\ Len(repo.branches) > RECENT_N
    /\ Len(info.branches) = RECENT_N
    /\ info.branches[1].timestamp < info.branches[RECENT_N].timestamp
    /\ \E left \in NamesOf(Matching) \ Returned :
          TimeOfName(left) <= info.branches[1].timestamp

\* The remote HEAD references, by position of enumeration
OriginHeads ==
    {k \in 1..Len(repo.remote_heads) : repo.remote_heads[k].name = RemoteHeadName(origin)}

\* C4: when the remote named origin has a HEAD reference, it is the one
\* selected, whatever the other remotes and the order of enumeration;
\* otherwise the last one enumerated is (none when there is none).
C4_OriginPreferred ==
    default_calls > 0 =>
        IF OriginHeads # {}
        THEN head_ref # None /\ head_ref[1].name = RemoteHeadName(origin)
        ELSE IF repo.remote_heads = <<>> THEN head_ref = None
        ELSE head_ref = Some(repo.remote_heads[Len(repo.remote_heads)])

HasBranch(name) == \E k \in 1..Len(repo.branches) : repo.branches[k].name = name
TipOf(name) == repo.branches[EnumIndex(name)].oid

\* The selected reference points to refs/remotes/<remote>/<branch>
TargetsBranch(branch) ==
    /\ head_ref # None
    /\ head_ref[1].target # None
    /\ \E k \in 1..MaxRemotes : head_ref[1].target[1] = RemoteBranchName(RemoteName(k), branch)

\* The selected reference points to a remote-tracking branch with no local
\* branch of its name
TargetHasNoLocalBranch ==
    \E branch \in {master, feat, main} : TargetsBranch(branch) /\ ~HasBranch(branch)

Dangling == head_ref # None /\ head_ref[1].target = None

\* The tip of the local branch called name, or the error of reading it
TipResult(name) ==
    IF TipOf(name) \in repo.bad THEN Err("peel_to_commit") ELSE Ok(TipOf(name))

\* master first, then main, else the error "Couldn't find default branch"
Fallback ==
    IF HasBranch(master) THEN TipResult(master)
    ELSE IF HasBranch(main) THEN TipResult(main)
    ELSE Err("Couldn't find default branch")

\* C5 as claimed: with no remote HEAD, a dangling one, or one whose branch
\* has no local branch, the result is the tip of master, else of main, else
\* the error "Couldn't find default branch".
C5_FallbackAsClaimed ==
    (default_calls > 0 /\ (head_ref = None \/ Dangling \/ TargetHasNoLocalBranch)) =>
        IF HasBranch(master) THEN default_sha = Ok(TipOf(master))
        ELSE IF HasBranch(main) THEN default_sha = Ok(TipOf(main))
        ELSE default_sha = Err("Couldn't find default branch")

\* C5, amended: with no remote HEAD, or one whose branch has no local branch,
\* the result is the tip of master, else of main (the error of reading that
\* tip when it cannot be read), else the error "Couldn't find default
\* branch"; with a dangling remote HEAD the result is the error of resolving
\* it, and master and main are not tried.
C5_Fallback ==
    default_calls > 0 =>
        /\ (head_ref = None \/ TargetHasNoLocalBranch) => default_sha = Fallback
        /\ Dangling => default_sha = Err("resolve")

\* The selected remote HEAD points to origin2/feat, there is no local feat
\* and no master, and the tip of main is returned
C5_Witness ==
    /\ default_calls > 0
    /\ TargetsBranch(feat) /\ ~HasBranch(feat)
    /\ ~HasBranch(master) /\ HasBranch(main)
    /\ default_sha = Ok(TipOf(main))

\* The label claimed for an age of ago seconds
ClaimedLabel(ago) ==
    IF ago = 0 THEN "now"
    ELSE LET day == 24 * 60 * 60
             unit == IF ago < 60 THEN <<"sec", 1>>
                     ELSE IF ago < 60 * 60 THEN <<"min", 60>>
                     ELSE IF ago < day THEN <<"hour", 60 * 60>>
                     ELSE IF ago < 7 * day THEN <<"day", day>>
                     ELSE IF ago < 30 * day THEN <<"week", 7 * day>>
                     ELSE IF ago < 12 * 30 * day THEN <<"month", 30 * day>>
                     ELSE <<"year", 12 * 30 * day>>
             count == ago \div unit[2]
         IN  ToString(count) \o " " \o unit[1] \o (IF count # 1 THEN "s" ELSE "")

\* C9: for an age ago = now - timestamp >= 0 the label is "now" when ago = 0
\* and otherwise the count, rounded down, of the largest unit that fits (sec,
\* min, hour, day, week below 30 days, month of 30 days, year of 12 months)
\* with an "s" unless the count is 1.
C9_RelativeLabel ==
    (time_pc = "done" /\ now - timestamp >= 0) => rel = ClaimedLabel(now - timestamp)

\* An age of 90 seconds is labelled "1 min"
C9_Witness == time_pc = "done" /\ now - timestamp = 90 /\ rel = "1 min"

\* The number of base-10 digits of n
NumDigits(n) ==
    IF n = 0 THEN 1
    ELSE CHOOSE d \in 1..10 : 10 ^ (d - 1) <= n /\ (d = 10 \/ n < 10 ^ d)

\* C10: count_digits returns the number of base-10 digits of its argument
\* (1 for 0), and it returns.
C10_CountDigits ==
    /\ [](cd_pc = "done" => cd_ret = NumDigits(cd_arg))
    /\ <>(cd_pc = "done")

\* count_digits(1000) has returned 4 through the loop
C10_Witness == cd_pc = "done" /\ cd_arg = 1000 /\ cd_ret = 4 /\ cd_i = 4

====
